---- MODULE Spec2Model ----
(***************************************************************************)
(* A model of api/index.py: the MailTmClient (account creation with        *)
(* retries, the timed poll loop, account deletion) and the Quart endpoints *)
(* that wrap it.                                                           *)
(*                                                                         *)
(* Every request (an HTTP request to one endpoint, or a direct call of     *)
(* MailTmClient.create_new_account) runs in its own slot r.  A step of the *)
(* model is the code a coroutine runs between two awaits: it ends when the *)
(* coroutine suspends on an upstream call or on asyncio.sleep, or when the *)
(* handler returns.  The event loop clock `now` advances only while some   *)
(* coroutine is suspended.                                                 *)
(*                                                                         *)
(* The upstream provider answers each call with a transport failure, an    *)
(* HTTP error status, or a body of the provider's schema (account and      *)
(* mailbox ids are non-empty strings, messages are non-empty objects).     *)
(* Request bodies, which callers control, carry arbitrary values for the   *)
(* identifiers, and JSON integers for timeout and interval (for which      *)
(* int(x) is x).                                                           *)
(***************************************************************************)
EXTENDS Integers, Sequences, FiniteSets, TLC

\* ------------------------------------------------------------- bounds
NumReqs == 2          \* request slots of the model
MaxRetriesArg == 3    \* largest max_retries a direct caller passes
MaxCallDur == 1       \* an upstream call answers within this many seconds
MaxLate == 1          \* asyncio.sleep wakes at most this late
MaxTimeoutArg == 2    \* largest timeout a request body carries
MaxIntervalArg == 2   \* largest interval a request body carries

\* ------------------------------------------------- program constants
DefaultMaxRetries == 3
BackoffSeconds == 3
DefaultTimeout == 60
DefaultInterval == 5
UsernameLength == 10

None == "None"
DefaultDomain == "vvvcx.me"
DefaultPassword == "thisispassword"

Reqs == 1 .. NumReqs

\* Python truthiness of an optional string
Truthy(v) == v \notin {None, ""}

VARIABLES
  MAILTM_API_KEY,   \* the process-wide key read from the environment
  now,              \* asyncio.get_event_loop().time(), in seconds
  slots,            \* the request slots in use (Spec follows one request)
  handler,          \* per request: the endpoint (or method) serving it
  pc,               \* per request: where its coroutine is suspended
  args,             \* per request: the inputs of the handler
  session,          \* per request: the client's httpx.AsyncClient
  address, password, account_id, mailbox_id,   \* per request: client fields
  attempt,          \* create_new_account: the loop variable
  cur_address,      \* create_new_account: the local variable address
  start_time,       \* wait_for_message: the local variable start_time
  since,            \* per request: when the current await began
  raised,           \* per request: the exception the client method raised
  returned,         \* per request: the value the client method returned
  status,           \* per request: the HTTP status answered (0: none yet)
  obs               \* per request: what an observer of the run has seen

clientVars == <<session, address, password, account_id, mailbox_id>>
localVars == <<attempt, cur_address, start_time>>
resultVars == <<raised, returned, status>>
vars == <<MAILTM_API_KEY, now, slots, handler, pc, args, clientVars,
          localVars, since, resultVars, obs>>

\* ------------------------------------------------- exception classes
\* class AccountCreationError(MailTmError), class MessageTimeoutError(MailTmError)
IsA(exc, cls) ==
  \/ exc = cls
  \/ cls = "MailTmError" /\ exc \in {"AccountCreationError", "MessageTimeoutError"}
  \/ cls = "Exception" /\ exc # "none"

\* ------------------------------------------------------ the upstream
NoPayload == [address |-> None, password |-> None]
NoJson == [id |-> None, mailboxes |-> <<>>, messages |-> <<>>]

\* A transport failure (httpx.RequestError), or an HTTP error status
ErrorResponses ==
  { [kind |-> "RequestError", code |-> 0, json |-> NoJson],
    [kind |-> "response", code |-> 500, json |-> NoJson] }

MailboxLists ==
  { <<>>,
    <<[path |-> "Sent", id |-> "mb2"]>>,
    <<[path |-> "INBOX", id |-> "mb1"]>>,
    <<[path |-> "Sent", id |-> "mb2"], [path |-> "INBOX", id |-> "mb3"]>> }

\* POST accounts answers 201 with the account, its id and its mailboxes
CreateResponses ==
  ErrorResponses \cup
  { [kind |-> "response", code |-> 201,
     json |-> [id |-> i, mailboxes |-> m, messages |-> <<>>]] :
       i \in {"acc1", "acc2"}, m \in MailboxLists }

\* GET .../messages answers 200 with the list of messages, newest first
MessageLists == { <<>>, <<"msg1">>, <<"msg2", "msg1">> }

FetchResponses ==
  ErrorResponses \cup
  { [kind |-> "response", code |-> 200,
     json |-> [id |-> None, mailboxes |-> <<>>, messages |-> m]] :
       m \in MessageLists }

\* DELETE accounts/{id} answers 204, or 404 for an id it does not know
DeleteResponses ==
  ErrorResponses \cup
  { [kind |-> "response", code |-> 204, json |-> NoJson],
    [kind |-> "response", code |-> 404, json |-> NoJson] }

\* response.raise_for_status()
IsErrorStatus(code) == code >= 400

\* MailTmClient._request: what the call makes of the upstream's answer
Request(resp) ==
  IF resp.kind = "RequestError"
    THEN [exc |-> "MailTmError", isNone |-> TRUE, json |-> NoJson]
  ELSE IF IsErrorStatus(resp.code)
    THEN [exc |-> "MailTmError", isNone |-> TRUE, json |-> NoJson]
  ELSE IF resp.code = 204
    THEN [exc |-> "none", isNone |-> TRUE, json |-> NoJson]
  ELSE [exc |-> "none", isNone |-> FALSE, json |-> resp.json]

\* generate_random_username: ten characters of a-z0-9, drawn at random
Usernames == { "k3x9q0a7bz", "m1m1m1m1m1" }

MakeAddress(username, domain) == username \o "@" \o domain

\* next((mb for mb in mailboxes if mb.get("path") == "INBOX"), None):
\* the first INBOX mailbox, NoMailbox (Python's None) when there is none
NoMailbox == [path |-> None, id |-> None]

\* Mutant: the first mailbox of the list is taken, whatever its path
FindInboxFirst(mailboxes) ==
  IF mailboxes = <<>> THEN NoMailbox ELSE mailboxes[1]

FindInbox(mailboxes) ==
  LET hits == { i \in 1 .. Len(mailboxes) : mailboxes[i].path = "INBOX" }
  IN  IF hits = {} THEN NoMailbox
      ELSE mailboxes[CHOOSE i \in hits : \A j \in hits : i <= j]

\* Mutant: the test for a missing INBOX is left out
InboxMissingUnchecked(inbox) == FALSE

\* `if not inbox`
InboxMissing(inbox) == inbox = NoMailbox

\* ---------------------------------------------------- the end of a handler
Endpoints ==
  {"index", "api_create_account", "api_wait_for_message", "api_delete_account"}

\* Mutant: api_wait_for_message's `except MailTmError` comes first and
\* catches MessageTimeoutError too
StatusOfBaseFirst(h, exc) ==
  IF h = "api_create_account" THEN
    IF exc = "none" THEN 201 ELSE 500
  ELSE IF h = "api_wait_for_message" THEN
    IF exc = "none" THEN 200
    ELSE IF IsA(exc, "MailTmError") THEN 500
    ELSE IF IsA(exc, "MessageTimeoutError") THEN 408
    ELSE 500
  ELSE IF h = "api_delete_account" THEN
    IF exc = "none" THEN 200 ELSE 500
  ELSE 0

\* The except clauses of the endpoints, in their order; an exception no
\* clause catches is answered 500 by the framework.  A direct call has no
\* HTTP status.
StatusOf(h, exc) ==
  IF h = "api_create_account" THEN
    IF exc = "none" THEN 201 ELSE 500
  ELSE IF h = "api_wait_for_message" THEN
    IF exc = "none" THEN 200
    ELSE IF IsA(exc, "MessageTimeoutError") THEN 408
    ELSE 500
  ELSE IF h = "api_delete_account" THEN
    IF exc = "none" THEN 200 ELSE 500
  ELSE 0

\* The finally clauses: api_create_account closes the session only `if
\* client`, and client is bound only when create_new_account returned.
ClosesSession(h, exc) ==
  IF h = "api_create_account" THEN exc = "none"
  ELSE h \in {"api_wait_for_message", "api_delete_account"}

\* The client method ends (raising exc, or returning val) and the handler h
\* around it answers; sess is the session as the method left it, o what has
\* been observed so far.
Complete(r, h, exc, val, sess, o) ==
  /\ pc' = [pc EXCEPT ![r] = "done"]
  /\ raised' = [raised EXCEPT ![r] = exc]
  /\ returned' = [returned EXCEPT ![r] = val]
  /\ status' = [status EXCEPT ![r] = StatusOf(h, exc)]
  /\ session' = [session EXCEPT ![r] =
       IF ClosesSession(h, exc) /\ sess = "open" THEN "closed" ELSE sess]
  /\ obs' = [obs EXCEPT ![r] = [o EXCEPT !.ended = now]]

\* ------------------------------------------------------------- requests
NoBody ==
  [isNone |-> TRUE, present |-> {}, accountId |-> None, mailboxId |-> None,
   timeout |-> 0, interval |-> 0]

NoArgs ==
  [max_retries |-> 0, domain |-> None, password |-> None, data |-> NoBody,
   timeout |-> 0, interval |-> 0]

NoObs ==
  [calls |-> <<>>,      \* the upstream calls issued, in order
   gen |-> <<>>,        \* the usernames generated, in order
   sleeps |-> 0,        \* the asyncio.sleep calls begun
   polls |-> 0,         \* the wait_for_message calls made
   clients |-> 0,       \* the MailTmClient objects constructed
   answers |-> <<>>,    \* what the upstream answered to each call
   lastCall |-> 0,      \* how long the last answered upstream call took
   lastSleep |-> 0,     \* how long the last finished sleep took
   ended |-> -1]        \* when the handler ended

\* What an observer notes of an upstream answer: whether the call failed,
\* whether the upstream answered 404 (it does not know the id), whether the
\* account came with an INBOX, the account's id and the ids of its mailboxes
\* of path "INBOX", the messages listed
Noted(resp) ==
  LET res == Request(resp) IN
  [failed |-> res.exc # "none",
   id |-> res.json.id,
   inboxIds |-> { res.json.mailboxes[i].id :
                    i \in { j \in 1 .. Len(res.json.mailboxes) :
                              res.json.mailboxes[j].path = "INBOX" } },
   notFound |-> resp.kind = "response" /\ resp.code = 404,
   inbox |-> ~InboxMissing(FindInbox(res.json.mailboxes)),
   messages |-> res.json.messages]

Answered(r, resp) ==
  [obs[r] EXCEPT !.lastCall = now - since[r],
                 !.answers = Append(@, Noted(resp))]

Init ==
  /\ MAILTM_API_KEY \in {None, "", "secret-key"}
  /\ now = 0
  /\ slots = {1}
  /\ handler = [r \in Reqs |-> "none"]
  /\ pc = [r \in Reqs |-> "idle"]
  /\ args = [r \in Reqs |-> NoArgs]
  /\ session = [r \in Reqs |-> "none"]
  /\ address = [r \in Reqs |-> None]
  /\ password = [r \in Reqs |-> None]
  /\ account_id = [r \in Reqs |-> None]
  /\ mailbox_id = [r \in Reqs |-> None]
  /\ attempt = [r \in Reqs |-> 0]
  /\ cur_address = [r \in Reqs |-> None]
  /\ start_time = [r \in Reqs |-> 0]
  /\ since = [r \in Reqs |-> 0]
  /\ raised = [r \in Reqs |-> "none"]
  /\ returned = [r \in Reqs |-> None]
  /\ status = [r \in Reqs |-> 0]
  /\ obs = [r \in Reqs |-> NoObs]

Idle(r) == r \in slots /\ pc[r] = "idle"

\* `if not MAILTM_API_KEY`
KeyMissing == ~Truthy(MAILTM_API_KEY)

\* Mutant: index tests the key as the other endpoints do
ChecksKeyEverywhere(h) ==
  h \in {"index", "api_create_account", "api_wait_for_message",
         "api_delete_account"}

\* The endpoints whose first statement is
\* `if not MAILTM_API_KEY: return ..., 500`; index has no such statement
ChecksKey(h) ==
  h \in {"api_create_account", "api_wait_for_message", "api_delete_account"}

\* An endpoint gets past its key check
KeyPassed(h) == ChecksKey(h) => ~KeyMissing

\* @app.route("/"): index
Index(r) ==
  /\ Idle(r)
  /\ KeyPassed("index")
  /\ handler' = [handler EXCEPT ![r] = "index"]
  /\ pc' = [pc EXCEPT ![r] = "done"]
  /\ status' = [status EXCEPT ![r] = 200]
  /\ obs' = [obs EXCEPT ![r].ended = now]
  /\ UNCHANGED <<MAILTM_API_KEY, now, slots, args, clientVars, localVars,
                 since, raised, returned>>

\* ----------------------------------------------- create_new_account
\* `for attempt in range(max_retries)`: the loop runs a pass for att
InRange(att, max_retries) == 0 <= att /\ att < max_retries

\* Mutant: the backoff is slept after the last failed attempt as well
AttemptsRemainAlways(att, max_retries) == att < max_retries

\* Mutant: the retry test gives up one attempt early
AttemptsRemainEarly(att, max_retries) == att < max_retries - 2

\* `attempt < max_retries - 1`: another attempt follows the failed one
AttemptsRemain(att, max_retries) == att < max_retries - 1

\* Mutant: the address is made once, before the loop, and every retry
\* posts it again
SendCreateSameAddress(r, a, o) ==
  \E u \in Usernames :
    LET fresh == cur_address[r] = None
        addr == IF fresh THEN MakeAddress(u, a.domain) ELSE cur_address[r]
    IN
    /\ cur_address' = [cur_address EXCEPT ![r] = addr]
    /\ pc' = [pc EXCEPT ![r] = "post"]
    /\ since' = [since EXCEPT ![r] = now]
    /\ obs' = [obs EXCEPT ![r] =
         [o EXCEPT !.gen = IF fresh THEN Append(@, u) ELSE @,
                   !.calls = Append(@, [method |-> "POST",
                                         endpoint |-> "accounts",
                                         json |-> [address |-> addr,
                                                   password |-> a.password]])]]

\* One pass of the loop body up to the await: a fresh username, the address,
\* and the POST of _create_account.
SendCreate(r, a, o) ==
  \E u \in Usernames :
    LET addr == MakeAddress(u, a.domain) IN
    /\ cur_address' = [cur_address EXCEPT ![r] = addr]
    /\ pc' = [pc EXCEPT ![r] = "post"]
    /\ since' = [since EXCEPT ![r] = now]
    /\ obs' = [obs EXCEPT ![r] =
         [o EXCEPT !.gen = Append(@, u),
                   !.calls = Append(@, [method |-> "POST",
                                         endpoint |-> "accounts",
                                         json |-> [address |-> addr,
                                                   password |-> a.password]])]]

\* cls(api_key), then the first pass of `for attempt in range(max_retries)`;
\* with an empty range the method falls through to its last raise.
BeginCreate(r, h, m) ==
  LET a == [NoArgs EXCEPT !.max_retries = m, !.domain = DefaultDomain,
                          !.password = DefaultPassword]
      o == [obs[r] EXCEPT !.clients = @ + 1]
  IN
  /\ Idle(r)
  /\ handler' = [handler EXCEPT ![r] = h]
  /\ args' = [args EXCEPT ![r] = a]
  /\ attempt' = [attempt EXCEPT ![r] = 0]
  /\ IF InRange(0, m)
       THEN /\ SendCreate(r, a, o)
            /\ session' = [session EXCEPT ![r] = "open"]
            /\ UNCHANGED resultVars
       ELSE /\ Complete(r, h, "AccountCreationError", None, "open", o)
            /\ UNCHANGED <<cur_address, since>>
  /\ UNCHANGED <<MAILTM_API_KEY, now, slots, address, password, account_id,
                 mailbox_id, start_time>>

\* POST /api/create_account with the key configured
ApiCreateAccount(r) ==
  /\ KeyPassed("api_create_account")
  /\ BeginCreate(r, "api_create_account", DefaultMaxRetries)

\* A direct call MailTmClient.create_new_account(api_key, max_retries=m)
CallCreateNewAccount(r) ==
  /\ Truthy(MAILTM_API_KEY)
  /\ \E m \in 0 .. MaxRetriesArg : BeginCreate(r, "create_new_account", m)

\* The upstream's answer to the POST arrives: the rest of the loop body.
CreateAnswered(r) ==
  /\ r \in slots
  /\ pc[r] = "post"
  /\ \E resp \in CreateResponses :
       LET res == Request(resp)
           inbox == FindInbox(res.json.mailboxes)
           o == Answered(r, resp)
           failed == res.exc # "none" \/ InboxMissing(inbox)
       IN
       /\ IF res.exc = "none"
            THEN /\ account_id' = [account_id EXCEPT ![r] = res.json.id]
                 /\ address' = [address EXCEPT ![r] = cur_address[r]]
                 /\ password' = [password EXCEPT ![r] = args[r].password]
            ELSE UNCHANGED <<account_id, address, password>>
       /\ IF ~failed
            THEN /\ mailbox_id' = [mailbox_id EXCEPT ![r] = inbox.id]
                 /\ Complete(r, handler[r], "none", "instance", session[r], o)
                 /\ UNCHANGED since
            ELSE /\ UNCHANGED mailbox_id
                 /\ IF AttemptsRemain(attempt[r], args[r].max_retries)
                      THEN /\ pc' = [pc EXCEPT ![r] = "backoff"]
                           /\ since' = [since EXCEPT ![r] = now]
                           /\ obs' = [obs EXCEPT ![r] =
                                        [o EXCEPT !.sleeps = @ + 1]]
                           /\ UNCHANGED <<session, resultVars>>
                      ELSE /\ Complete(r, handler[r], "AccountCreationError",
                                       None, session[r], o)
                           /\ UNCHANGED since
  /\ UNCHANGED <<MAILTM_API_KEY, now, slots, handler, args, localVars>>

\* asyncio.sleep(3) is over: the next pass of the loop
BackoffOver(r) ==
  /\ r \in slots
  /\ pc[r] = "backoff"
  /\ now >= since[r] + BackoffSeconds
  /\ attempt' = [attempt EXCEPT ![r] = @ + 1]
  /\ LET o == [obs[r] EXCEPT !.lastSleep = now - since[r]] IN
     IF InRange(attempt[r] + 1, args[r].max_retries)
       THEN /\ SendCreate(r, args[r], o)
            /\ UNCHANGED <<session, resultVars>>
       ELSE /\ Complete(r, handler[r], "AccountCreationError", None,
                        session[r], o)
            /\ UNCHANGED <<cur_address, since>>
  /\ UNCHANGED <<MAILTM_API_KEY, now, slots, handler, args, address, password,
                 account_id, mailbox_id, start_time>>

\* ------------------------------------------------- wait_for_message
\* The JSON bodies callers send to /api/wait_for_message
Bodies ==
  { NoBody, [NoBody EXCEPT !.isNone = FALSE] } \cup
  { [isNone |-> FALSE, present |-> p, accountId |-> None, mailboxId |-> None,
     timeout |-> 1, interval |-> 1] :
       p \in { {"accountId", "timeout", "interval"},
               {"mailboxId", "timeout", "interval"},
               {"timeout", "interval"} } } \cup
  { [isNone |-> FALSE,
     present |-> {"accountId", "mailboxId", "timeout", "interval"},
     accountId |-> a, mailboxId |-> m, timeout |-> t, interval |-> i] :
       a \in {"acc1", "", None}, m \in {"mb1", "", None},
       t \in -1 .. MaxTimeoutArg, i \in 1 .. MaxIntervalArg } \cup
  { [isNone |-> FALSE, present |-> {"accountId", "mailboxId", "timeout"},
     accountId |-> "acc1", mailboxId |-> "mb1", timeout |-> 1, interval |-> 0] }

\* An endpoint answers 500 for want of a key, whatever the request carries
RejectNoKey(r, h) ==
  /\ Idle(r)
  /\ ~KeyPassed(h)
  /\ handler' = [handler EXCEPT ![r] = h]
  /\ \E data \in (IF h = "api_wait_for_message" THEN Bodies ELSE {NoBody}) :
       args' = [args EXCEPT ![r] = [NoArgs EXCEPT !.data = data]]
  /\ pc' = [pc EXCEPT ![r] = "done"]
  /\ status' = [status EXCEPT ![r] = 500]
  /\ obs' = [obs EXCEPT ![r].ended = now]
  /\ UNCHANGED <<MAILTM_API_KEY, now, slots, clientVars, localVars,
                 since, raised, returned>>

\* Mutant: the body is tested for accountId alone
MissingFieldsAccountOnly(data) ==
  \/ data.isNone
  \/ data.present = {}
  \/ "accountId" \notin data.present

\* `not data or "accountId" not in data or "mailboxId" not in data`
MissingFields(data) ==
  \/ data.isNone
  \/ data.present = {}
  \/ "accountId" \notin data.present
  \/ "mailboxId" \notin data.present

\* data.get(key, default)
DataGet(data, key, default) ==
  IF key \in data.present THEN data[key] ELSE default

\* Mutant: the deadline test lets a pass start at the deadline itself
WithinTimeoutInclusive(t, start, timeout) == t - start <= timeout

\* `asyncio.get_event_loop().time() - start_time < timeout`
WithinTimeout(t, start, timeout) == t - start < timeout

\* `if not self.account_id or not self.mailbox_id`
NotInitialized(acc, mb) == ~Truthy(acc) \/ ~Truthy(mb)

MessagesEndpoint(acc, mb) ==
  "accounts/" \o acc \o "/mailboxes/" \o mb \o "/messages"

\* Mutant: the last message of the list is taken for the latest
LatestOfLast(res) ==
  IF res.isNone \/ res.json.messages = <<>> THEN None
  ELSE res.json.messages[Len(res.json.messages)]

\* get_latest_message after the answer: messages[0] if messages, else None
LatestOf(res) ==
  IF res.isNone \/ res.json.messages = <<>> THEN None
  ELSE res.json.messages[1]

\* The loop of wait_for_message from its condition to the next await: the
\* deadline test, then get_latest_message up to its GET.
WaitPass(r, h, a, acc, mb, start, sess, o) ==
  IF ~WithinTimeout(now, start, a.timeout)
    THEN /\ Complete(r, h, "MessageTimeoutError", None, sess, o)
         /\ UNCHANGED since
  ELSE IF NotInitialized(acc, mb)
    THEN /\ Complete(r, h, "MailTmError", None, sess, o)
         /\ UNCHANGED since
  ELSE /\ pc' = [pc EXCEPT ![r] = "fetch"]
       /\ since' = [since EXCEPT ![r] = now]
       /\ session' = [session EXCEPT ![r] = sess]
       /\ obs' = [obs EXCEPT ![r] =
            [o EXCEPT !.calls = Append(@, [method |-> "GET",
                                            endpoint |-> MessagesEndpoint(acc, mb),
                                            json |-> NoPayload])]]
       /\ UNCHANGED resultVars

\* POST /api/wait_for_message with the key configured
ApiWaitForMessage(r) ==
  /\ Idle(r)
  /\ KeyPassed("api_wait_for_message")
  /\ handler' = [handler EXCEPT ![r] = "api_wait_for_message"]
  /\ \E data \in Bodies :
       IF MissingFields(data)
         THEN /\ args' = [args EXCEPT ![r] = [NoArgs EXCEPT !.data = data]]
              /\ pc' = [pc EXCEPT ![r] = "done"]
              /\ status' = [status EXCEPT ![r] = 400]
              /\ obs' = [obs EXCEPT ![r].ended = now]
              /\ UNCHANGED <<clientVars, start_time, since, raised, returned>>
         ELSE LET a == [NoArgs EXCEPT
                          !.data = data,
                          !.timeout = DataGet(data, "timeout", DefaultTimeout),
                          !.interval = DataGet(data, "interval", DefaultInterval)]
                  o == [obs[r] EXCEPT !.clients = @ + 1, !.polls = @ + 1]
              IN
              /\ args' = [args EXCEPT ![r] = a]
              /\ account_id' = [account_id EXCEPT ![r] = data.accountId]
              /\ mailbox_id' = [mailbox_id EXCEPT ![r] = data.mailboxId]
              /\ start_time' = [start_time EXCEPT ![r] = now]
              /\ WaitPass(r, "api_wait_for_message", a, data.accountId,
                          data.mailboxId, now, "open", o)
              /\ UNCHANGED <<address, password>>
  /\ UNCHANGED <<MAILTM_API_KEY, now, slots, attempt, cur_address>>

\* Mutant: a failed fetch is taken for "no message yet" and the loop goes on
FetchAnsweredKeepsPolling(r) ==
  /\ r \in slots
  /\ pc[r] = "fetch"
  /\ \E resp \in FetchResponses :
       LET res == Request(resp)
           o == Answered(r, resp)
       IN
       IF res.exc = "none" /\ LatestOf(res) # None
         THEN /\ Complete(r, handler[r], "none", LatestOf(res), session[r], o)
              /\ UNCHANGED since
       ELSE /\ pc' = [pc EXCEPT ![r] = "sleep"]
            /\ since' = [since EXCEPT ![r] = now]
            /\ obs' = [obs EXCEPT ![r] = [o EXCEPT !.sleeps = @ + 1]]
            /\ UNCHANGED <<session, resultVars>>
  /\ UNCHANGED <<MAILTM_API_KEY, now, slots, handler, args, address, password,
                 account_id, mailbox_id, localVars>>

\* Mutant: the deadline is tested again when the answer arrives, and an
\* answer that comes after it is dropped for MessageTimeoutError
FetchAnsweredChecksDeadline(r) ==
  /\ r \in slots
  /\ pc[r] = "fetch"
  /\ \E resp \in FetchResponses :
       LET res == Request(resp)
           o == Answered(r, resp)
       IN
       IF ~WithinTimeout(now, start_time[r], args[r].timeout)
         THEN /\ Complete(r, handler[r], "MessageTimeoutError", None,
                          session[r], o)
              /\ UNCHANGED since
       ELSE IF res.exc # "none"
         THEN /\ Complete(r, handler[r], res.exc, None, session[r], o)
              /\ UNCHANGED since
       ELSE IF LatestOf(res) # None
         THEN /\ Complete(r, handler[r], "none", LatestOf(res), session[r], o)
              /\ UNCHANGED since
       ELSE /\ pc' = [pc EXCEPT ![r] = "sleep"]
            /\ since' = [since EXCEPT ![r] = now]
            /\ obs' = [obs EXCEPT ![r] = [o EXCEPT !.sleeps = @ + 1]]
            /\ UNCHANGED <<session, resultVars>>
  /\ UNCHANGED <<MAILTM_API_KEY, now, slots, handler, args, address, password,
                 account_id, mailbox_id, localVars>>

\* The upstream's answer to the GET arrives: the rest of get_latest_message
\* and of the loop body.
FetchAnswered(r) ==
  /\ r \in slots
  /\ pc[r] = "fetch"
  /\ \E resp \in FetchResponses :
       LET res == Request(resp)
           o == Answered(r, resp)
       IN
       IF res.exc # "none"
         THEN /\ Complete(r, handler[r], res.exc, None, session[r], o)
              /\ UNCHANGED since
       ELSE IF LatestOf(res) # None
         THEN /\ Complete(r, handler[r], "none", LatestOf(res), session[r], o)
              /\ UNCHANGED since
       ELSE /\ pc' = [pc EXCEPT ![r] = "sleep"]
            /\ since' = [since EXCEPT ![r] = now]
            /\ obs' = [obs EXCEPT ![r] = [o EXCEPT !.sleeps = @ + 1]]
            /\ UNCHANGED <<session, resultVars>>
  /\ UNCHANGED <<MAILTM_API_KEY, now, slots, handler, args, address, password,
                 account_id, mailbox_id, localVars>>

\* Mutant: the sleep between two fetches does not wait for the interval
SleepOverEarly(r) ==
  /\ r \in slots
  /\ pc[r] = "sleep"
  /\ WaitPass(r, handler[r], args[r], account_id[r], mailbox_id[r],
              start_time[r], session[r],
              [obs[r] EXCEPT !.lastSleep = now - since[r]])
  /\ UNCHANGED <<MAILTM_API_KEY, now, slots, handler, args, address, password,
                 account_id, mailbox_id, localVars>>

\* asyncio.sleep(interval) is over: the next pass of the loop
SleepOver(r) ==
  /\ r \in slots
  /\ pc[r] = "sleep"
  /\ now >= since[r] + args[r].interval
  /\ WaitPass(r, handler[r], args[r], account_id[r], mailbox_id[r],
              start_time[r], session[r],
              [obs[r] EXCEPT !.lastSleep = now - since[r]])
  /\ UNCHANGED <<MAILTM_API_KEY, now, slots, handler, args, address, password,
                 account_id, mailbox_id, localVars>>

\* --------------------------------------------------- delete_account
\* The account ids of the path /api/delete_account/<string:account_id>
PathIds == { "acc1", "acc2" }

\* delete_account up to its await: nothing to do without an account_id,
\* else the DELETE.
BeginDelete(r, h, acc, o) ==
  /\ Idle(r)
  /\ handler' = [handler EXCEPT ![r] = h]
  /\ IF ~Truthy(acc)
       THEN /\ Complete(r, h, "none", None, "open", o)
            /\ UNCHANGED since
       ELSE /\ pc' = [pc EXCEPT ![r] = "delete"]
            /\ since' = [since EXCEPT ![r] = now]
            /\ session' = [session EXCEPT ![r] = "open"]
            /\ obs' = [obs EXCEPT ![r] =
                 [o EXCEPT !.calls = Append(@, [method |-> "DELETE",
                                                 endpoint |-> "accounts/" \o acc,
                                                 json |-> NoPayload])]]
            /\ UNCHANGED resultVars
  /\ UNCHANGED <<MAILTM_API_KEY, now, slots, args, localVars>>

\* Mutant: the endpoints share one client, a module-level object, and the
\* delete endpoint stores its path id there
ApiDeleteAccountShared(r) ==
  /\ KeyPassed("api_delete_account")
  /\ \E id \in PathIds :
       /\ account_id' = [q \in Reqs |-> id]
       /\ BeginDelete(r, "api_delete_account", id,
                      [obs[r] EXCEPT !.clients = @ + 1])
  /\ UNCHANGED <<address, password, mailbox_id>>

\* DELETE /api/delete_account/{account_id} with the key configured
ApiDeleteAccount(r) ==
  /\ KeyPassed("api_delete_account")
  /\ \E id \in PathIds :
       /\ account_id' = [account_id EXCEPT ![r] = id]
       /\ BeginDelete(r, "api_delete_account", id,
                      [obs[r] EXCEPT !.clients = @ + 1])
  /\ UNCHANGED <<address, password, mailbox_id>>

\* A direct call of delete_account on a client whose fields are set as
\* create_new_account leaves them, or whose account_id is unset
CallDeleteAccount(r) ==
  /\ Truthy(MAILTM_API_KEY)
  /\ \E acc \in {"acc1", "", None} :
       /\ account_id' = [account_id EXCEPT ![r] = acc]
       /\ address' = [address EXCEPT ![r] =
                        MakeAddress("k3x9q0a7bz", DefaultDomain)]
       /\ password' = [password EXCEPT ![r] = DefaultPassword]
       /\ mailbox_id' = [mailbox_id EXCEPT ![r] = "mb1"]
       /\ BeginDelete(r, "delete_account", acc,
                      [obs[r] EXCEPT !.clients = @ + 1])

\* Mutant: a successful delete clears account_id and forgets the address
DeleteAnsweredKeepsAddress(r) ==
  /\ r \in slots
  /\ pc[r] = "delete"
  /\ \E resp \in DeleteResponses :
       LET res == Request(resp)
           o == Answered(r, resp)
       IN
       IF res.exc # "none"
         THEN /\ Complete(r, handler[r], res.exc, None, session[r], o)
              /\ UNCHANGED <<account_id, address>>
         ELSE /\ Complete(r, handler[r], "none", None, session[r], o)
              /\ account_id' = [account_id EXCEPT ![r] = None]
              /\ UNCHANGED address
  /\ UNCHANGED <<MAILTM_API_KEY, now, slots, handler, args, password,
                 mailbox_id, localVars, since>>

\* Mutant: the fields are cleared in a finally clause, whether or not the
\* DELETE succeeded
DeleteAnsweredClearsAlways(r) ==
  /\ r \in slots
  /\ pc[r] = "delete"
  /\ \E resp \in DeleteResponses :
       LET res == Request(resp)
           o == Answered(r, resp)
       IN
       /\ IF res.exc # "none"
            THEN Complete(r, handler[r], res.exc, None, session[r], o)
            ELSE Complete(r, handler[r], "none", None, session[r], o)
       /\ account_id' = [account_id EXCEPT ![r] = None]
       /\ address' = [address EXCEPT ![r] = None]
  /\ UNCHANGED <<MAILTM_API_KEY, now, slots, handler, args, password,
                 mailbox_id, localVars, since>>

\* The upstream's answer to the DELETE arrives: the rest of delete_account
DeleteAnswered(r) ==
  /\ r \in slots
  /\ pc[r] = "delete"
  /\ \E resp \in DeleteResponses :
       LET res == Request(resp)
           o == Answered(r, resp)
       IN
       IF res.exc # "none"
         THEN /\ Complete(r, handler[r], res.exc, None, session[r], o)
              /\ UNCHANGED <<account_id, address>>
         ELSE /\ Complete(r, handler[r], "none", None, session[r], o)
              /\ account_id' = [account_id EXCEPT ![r] = None]
              /\ address' = [address EXCEPT ![r] = None]
  /\ UNCHANGED <<MAILTM_API_KEY, now, slots, handler, args, password,
                 mailbox_id, localVars, since>>

\* ------------------------------------------------------------ the clock
Suspended(r) == r \in slots /\ pc[r] \in {"post", "backoff", "fetch", "sleep", "delete"}

\* How long the await of r lasts at most
AwaitLimit(r) ==
  IF pc[r] = "backoff" THEN BackoffSeconds + MaxLate
  ELSE IF pc[r] = "sleep" THEN args[r].interval + MaxLate
  ELSE MaxCallDur

\* A second passes while some coroutine is suspended and none is overdue
Tick ==
  /\ \E r \in Reqs : Suspended(r)
  /\ \A r \in Reqs : Suspended(r) => now - since[r] < AwaitLimit(r)
  /\ now' = now + 1
  /\ UNCHANGED <<MAILTM_API_KEY, slots, handler, pc, args, clientVars,
                 localVars, since, resultVars, obs>>

Next ==
  \/ Tick
  \/ \E r \in Reqs :
       \/ Index(r)
       \/ \E h \in Endpoints : RejectNoKey(r, h)
       \/ ApiCreateAccount(r)
       \/ CallCreateNewAccount(r)
       \/ CreateAnswered(r)
       \/ BackoffOver(r)
       \/ ApiWaitForMessage(r)
       \/ FetchAnswered(r)
       \/ SleepOver(r)
       \/ ApiDeleteAccount(r)
       \/ CallDeleteAccount(r)
       \/ DeleteAnswered(r)

Spec == Init /\ [][Next]_vars

\* ======================================================= the claims
\* ------------------------------------------- requests served concurrently
\* Two requests are in flight in the one event loop, the key being
\* configured: each endpoint call makes its own MailTmClient
InitConc ==
  /\ MAILTM_API_KEY = "secret-key"
  /\ now = 0
  /\ slots = {1, 2}
  /\ handler = [r \in Reqs |-> "none"]
  /\ pc = [r \in Reqs |-> "idle"]
  /\ args = [r \in Reqs |-> NoArgs]
  /\ session = [r \in Reqs |-> "none"]
  /\ address = [r \in Reqs |-> None]
  /\ password = [r \in Reqs |-> None]
  /\ account_id = [r \in Reqs |-> None]
  /\ mailbox_id = [r \in Reqs |-> None]
  /\ attempt = [r \in Reqs |-> 0]
  /\ cur_address = [r \in Reqs |-> None]
  /\ start_time = [r \in Reqs |-> 0]
  /\ since = [r \in Reqs |-> 0]
  /\ raised = [r \in Reqs |-> "none"]
  /\ returned = [r \in Reqs |-> None]
  /\ status = [r \in Reqs |-> 0]
  /\ obs = [r \in Reqs |-> NoObs]

\* The steps of the wait_for_message and delete_account endpoints,
\* interleaved at their awaits
NextConc ==
  \/ Tick
  \/ \E r \in Reqs :
       \/ ApiWaitForMessage(r)
       \/ FetchAnswered(r)
       \/ SleepOver(r)
       \/ ApiDeleteAccount(r)
       \/ DeleteAnswered(r)

SpecConc == InitConc /\ [][NextConc]_vars

\* ----------------------------------------- wait_for_message under fairness
\* The steps of the wait_for_message endpoint
NextWait ==
  \/ Tick
  \/ \E r \in Reqs :
       \/ RejectNoKey(r, "api_wait_for_message")
       \/ ApiWaitForMessage(r)
       \/ FetchAnswered(r)
       \/ SleepOver(r)

\* The event loop runs a coroutine that can run, every gateway call is
\* answered and every sleep ends: a step that stays possible is taken
SpecWait == Init /\ [][NextWait]_vars /\ WF_vars(NextWait)

\* ------------------------------------------------------------ the claims
Done(r) == r \in slots /\ pc[r] = "done"

Creating(r) == handler[r] \in {"api_create_account", "create_new_account"}

Waiting(r) == handler[r] = "api_wait_for_message"

\* An answer to POST accounts that makes the attempt fail: a transport
\* error, an error status, or an account without an INBOX
AttemptFailed(ans) == ans.failed \/ ~ans.inbox

FailedAttempts(r) ==
  Cardinality({ i \in 1 .. Len(obs[r].answers) : AttemptFailed(obs[r].answers[i]) })

Calls(r) == Len(obs[r].calls)

\* C1: with max_retries >= 1, create_new_account never issues more than
\* max_retries upstream calls, and when every answered call has failed and
\* the method has ended, it ended raising AccountCreationError after exactly
\* max_retries calls.
C1_ExhaustedRetries ==
  \A r \in Reqs :
    (Creating(r) /\ args[r].max_retries >= 1) =>
      /\ Calls(r) <= args[r].max_retries
      /\ (Done(r) /\ FailedAttempts(r) = Calls(r)) =>
           /\ raised[r] = "AccountCreationError"
           /\ Calls(r) = args[r].max_retries
      /\ (Done(r) /\ raised[r] # "none") =>
           /\ raised[r] = "AccountCreationError"
           /\ FailedAttempts(r) = Calls(r)

C1_Witness ==
  \E r \in Reqs :
    /\ Done(r) /\ handler[r] = "create_new_account"
    /\ args[r].max_retries = 2
    /\ raised[r] = "AccountCreationError"
    /\ Calls(r) = 2 /\ FailedAttempts(r) = 2
    /\ obs[r].answers[1].failed
    /\ ~obs[r].answers[2].failed /\ ~obs[r].answers[2].inbox

\* C2: when the first k attempts fail and attempt k+1 succeeds (k <
\* max_retries), create_new_account returns the client after exactly k+1
\* upstream calls, and the i-th call carries the address made of the i-th
\* username generated: one generation per call.
C2_RetriedCreation ==
  \A r \in Reqs :
    (Creating(r) /\ Len(obs[r].answers) >= 1
       /\ ~AttemptFailed(obs[r].answers[Len(obs[r].answers)])) =>
      /\ Done(r) /\ raised[r] = "none" /\ returned[r] = "instance"
      /\ Calls(r) = FailedAttempts(r) + 1
      /\ FailedAttempts(r) < args[r].max_retries
      /\ Len(obs[r].gen) = Calls(r)
      /\ \A i \in 1 .. Calls(r) :
           /\ obs[r].calls[i].method = "POST"
           /\ obs[r].calls[i].endpoint = "accounts"
           /\ obs[r].calls[i].json.address =
                MakeAddress(obs[r].gen[i], args[r].domain)

C2_Witness ==
  \E r \in Reqs :
    /\ Done(r) /\ handler[r] = "api_create_account" /\ raised[r] = "none"
    /\ FailedAttempts(r) = 2 /\ Calls(r) = 3
    /\ obs[r].gen[1] # obs[r].gen[2]
    /\ obs[r].calls[1].json.address # obs[r].calls[2].json.address

C4_SessionsClosed ==
  \A r \in Reqs :
    (Done(r) /\ handler[r] \in Endpoints) => session[r] # "open"

\* The time wait_for_message took, from its first statement to its end
Elapsed(r) == obs[r].ended - start_time[r]

TimedOut(r) == Waiting(r) /\ Done(r) /\ raised[r] = "MessageTimeoutError"

\* C5 as stated, for the requests with a timeout > 0: a wait_for_message
\* that raises MessageTimeoutError (every fetch having listed no message)
\* took a time within [timeout, timeout + interval).
C5_ElapsedWithinInterval ==
  \A r \in Reqs :
    (TimedOut(r) /\ args[r].timeout > 0) =>
      /\ args[r].timeout <= Elapsed(r)
      /\ Elapsed(r) < args[r].timeout + args[r].interval

\* C5 as amended: it took at least timeout; with timeout > 0 it made a fetch
\* and took less than timeout plus the time of its last fetch plus the time
\* of its last sleep; with timeout <= 0 it made no fetch and took no time.
C5_ElapsedBounds ==
  \A r \in Reqs :
    TimedOut(r) =>
      /\ args[r].timeout <= Elapsed(r)
      /\ \A i \in 1 .. Len(obs[r].answers) :
           ~obs[r].answers[i].failed /\ obs[r].answers[i].messages = <<>>
      /\ obs[r].sleeps = Calls(r)
      /\ args[r].timeout > 0 =>
           /\ Calls(r) >= 1
           /\ obs[r].lastSleep >= args[r].interval
           /\ Elapsed(r) < args[r].timeout + obs[r].lastCall + obs[r].lastSleep
           /\ (obs[r].lastCall = 0 /\ obs[r].lastSleep = args[r].interval) =>
                Elapsed(r) < args[r].timeout + args[r].interval
      /\ args[r].timeout <= 0 => (Calls(r) = 0 /\ Elapsed(r) = 0)

C5_Witness ==
  \E r \in Reqs :
    /\ TimedOut(r)
    /\ Calls(r) = 2
    /\ obs[r].lastCall = 1
    /\ Elapsed(r) >= args[r].timeout + args[r].interval

\* C6: once the first fetch of wait_for_message has listed a message, the
\* call has returned the first message of that list, after that one fetch
\* and without a sleep.
C6_ImmediateReturn ==
  \A r \in Reqs :
    (Waiting(r) /\ Len(obs[r].answers) >= 1
       /\ ~obs[r].answers[1].failed
       /\ obs[r].answers[1].messages # <<>>) =>
      /\ Done(r) /\ raised[r] = "none"
      /\ returned[r] = obs[r].answers[1].messages[1]
      /\ Calls(r) = 1
      /\ obs[r].calls[1].method = "GET"
      /\ obs[r].sleeps = 0
      /\ status[r] = 200

C6_Witness ==
  \E r \in Reqs :
    /\ Waiting(r) /\ Done(r)
    /\ Len(obs[r].answers) = 1
    /\ Len(obs[r].answers[1].messages) = 2
    /\ returned[r] = "msg2"

\* C7: a wait_for_message called on a client whose account_id or mailbox_id
\* is unset ends with MailTmError itself, a configuration error and not
\* MessageTimeoutError, without an upstream call.
C7_UnsetIdsRejected ==
  \A r \in Reqs :
    (Waiting(r) /\ Done(r) /\ obs[r].polls = 1
       /\ NotInitialized(account_id[r], mailbox_id[r])) =>
      /\ raised[r] = "MailTmError"
      /\ Calls(r) = 0

\* C8: the wait_for_message endpoint answers 408 exactly when the poll
\* raised MessageTimeoutError, 200 exactly when the poll returned a message,
\* 500 when the poll raised another MailTmError, and calls the poll at most
\* once: exactly once for each of these answers.
C8_TimeoutIs408 ==
  \A r \in Reqs :
    Waiting(r) =>
      /\ obs[r].polls <= 1
      /\ Done(r) =>
           /\ status[r] = 408 <=> raised[r] = "MessageTimeoutError"
           /\ status[r] = 200 <=> (obs[r].polls = 1 /\ raised[r] = "none")
           /\ status[r] = 200 => returned[r] \in {"msg1", "msg2"}
           /\ (IsA(raised[r], "MailTmError")
                 /\ raised[r] # "MessageTimeoutError") => status[r] = 500
           /\ status[r] \in {200, 408} => obs[r].polls = 1
           /\ obs[r].polls = 1 => status[r] \in {200, 408, 500}

C8_Witness ==
  \E r \in Reqs :
    /\ Waiting(r) /\ Done(r)
    /\ status[r] = 408 /\ raised[r] = "MessageTimeoutError"
    /\ obs[r].polls = 1 /\ Calls(r) = 2

\* The body omits accountId or mailboxId
Omitted(data) ==
  \/ data.isNone
  \/ "accountId" \notin data.present
  \/ "mailboxId" \notin data.present

\* C9 as stated: a request to the wait_for_message endpoint whose body omits
\* accountId or mailboxId is answered 400, with no client constructed and no
\* upstream call.
C9_OmittedIs400 ==
  \A r \in Reqs :
    (Waiting(r) /\ Done(r) /\ Omitted(args[r].data)) =>
      /\ status[r] = 400
      /\ obs[r].clients = 0
      /\ Calls(r) = 0

\* C9 as amended: such a request is answered 400 when the API key is
\* configured and 500 when it is not; either way no client is constructed,
\* no session opened and no upstream call made.
C9_OmittedIs400WithKey ==
  \A r \in Reqs :
    (Waiting(r) /\ Done(r) /\ Omitted(args[r].data)) =>
      /\ status[r] = IF KeyMissing THEN 500 ELSE 400
      /\ obs[r].clients = 0
      /\ session[r] = "none"
      /\ obs[r].polls = 0
      /\ Calls(r) = 0

C9_Witness ==
  \E r \in Reqs :
    /\ Waiting(r) /\ Done(r)
    /\ ~args[r].data.isNone
    /\ "accountId" \notin args[r].data.present
    /\ "mailboxId" \in args[r].data.present
    /\ status[r] = 400

\* C10 as stated: without a configured API key every endpoint, GET /
\* included, answers 500 and makes no upstream call.
C10_NoKeyIs500 ==
  \A r \in Reqs :
    (KeyMissing /\ Done(r) /\ handler[r] \in Endpoints) =>
      /\ status[r] = 500
      /\ Calls(r) = 0

\* C10 as amended: without a configured API key the three /api endpoints
\* answer 500 and GET / answers 200; none constructs a client or makes an
\* upstream call.
C10_NoKeyIs500ExceptIndex ==
  \A r \in Reqs :
    (KeyMissing /\ r \in slots /\ handler[r] # "none") =>
      /\ handler[r] \in Endpoints
      /\ Done(r)
      /\ status[r] = IF handler[r] = "index" THEN 200 ELSE 500
      /\ obs[r].clients = 0
      /\ session[r] = "none"
      /\ Calls(r) = 0

C10_Witness ==
  \E r \in Reqs :
    /\ MAILTM_API_KEY = ""
    /\ Done(r) /\ handler[r] = "api_delete_account"
    /\ status[r] = 500

Deleting(r) == handler[r] \in {"api_delete_account", "delete_account"}

\* C11: DELETE /api/delete_account/{id} for an id the upstream does not know
\* (or has deleted already: the upstream answers 404) is answered 200.
C11_DeleteIdempotent ==
  \A r \in Reqs :
    (handler[r] = "api_delete_account" /\ Done(r)
       /\ Len(obs[r].answers) = 1 /\ obs[r].answers[1].notFound) =>
      status[r] = 200
\* The address a direct caller's client holds before delete_account
HeldAddress == MakeAddress("k3x9q0a7bz", DefaultDomain)

\* C12: a delete_account that finds account_id set issues one upstream call,
\* DELETE accounts/{account_id}, and no other; when that call has succeeded
\* the client's account_id and address are None.
C12_DeleteOnceAndClear ==
  \A r \in Reqs :
    (Deleting(r) /\ r \in slots) =>
      /\ Calls(r) <= 1
      /\ pc[r] = "delete" =>
           /\ Calls(r) = 1 /\ Truthy(account_id[r])
           /\ obs[r].calls[1] = [method |-> "DELETE",
                                 endpoint |-> "accounts/" \o account_id[r],
                                 json |-> NoPayload]
      /\ (Done(r) /\ Len(obs[r].answers) = 1 /\ ~obs[r].answers[1].failed) =>
           /\ Calls(r) = 1
           /\ obs[r].calls[1].method = "DELETE"
           /\ raised[r] = "none"
           /\ account_id[r] = None
           /\ address[r] = None
      /\ (Done(r) /\ Calls(r) = 0 /\ handler[r] = "delete_account") =>
           ~Truthy(account_id[r])

C12_Witness ==
  \E r \in Reqs :
    /\ handler[r] = "delete_account" /\ Done(r)
    /\ obs[r].calls = << [method |-> "DELETE", endpoint |-> "accounts/acc1",
                          json |-> NoPayload] >>
    /\ ~obs[r].answers[1].failed
    /\ address[r] = None /\ account_id[r] = None
\* C13: once a fetch of wait_for_message has failed (a transport error or an
\* error status), the call has ended with MailTmError itself, not
\* MessageTimeoutError, and the endpoint has answered 500, whatever the
\* clock says; the failed fetch is the last one, and no sleep follows it.
C13_FetchFailureIsFatal ==
  \A r \in Reqs :
    (Waiting(r) /\ \E i \in 1 .. Len(obs[r].answers) : obs[r].answers[i].failed) =>
      LET n == Len(obs[r].answers) IN
      /\ Done(r)
      /\ raised[r] = "MailTmError"
      /\ status[r] = 500
      /\ obs[r].answers[n].failed
      /\ \A i \in 1 .. n - 1 : ~obs[r].answers[i].failed
      /\ Calls(r) = n
      /\ obs[r].sleeps = n - 1

C13_Witness ==
  \E r \in Reqs :
    /\ Waiting(r) /\ Done(r)
    /\ Calls(r) = 2 /\ obs[r].answers[2].failed
    /\ Elapsed(r) >= args[r].timeout
    /\ status[r] = 500
Min(a, b) == IF a <= b THEN a ELSE b

\* C14: in create_new_account (max_retries >= 1) a backoff sleep is begun
\* after each failed attempt but the last and nowhere else, and lasts the
\* fixed backoff at least: while call n is in flight n - 1 sleeps have been
\* begun, one per earlier (failed) attempt; during the backoff every call
\* has failed and an attempt remains; the call ends, on a success or on the
\* last failure, without a further sleep, having slept
\* min(failed attempts, max_retries - 1) times. With max_retries = 0 there
\* is neither an attempt nor a sleep.
C14_BackoffBetweenAttempts ==
  \A r \in Reqs :
    (Creating(r) /\ r \in slots /\ obs[r].clients = 1) =>
      /\ args[r].max_retries >= 1 =>
           /\ pc[r] = "post" =>
                /\ obs[r].sleeps = Calls(r) - 1
                /\ FailedAttempts(r) = Calls(r) - 1
                /\ Len(obs[r].answers) = Calls(r) - 1
           /\ pc[r] = "backoff" =>
                /\ obs[r].sleeps = Calls(r)
                /\ FailedAttempts(r) = Calls(r)
                /\ Calls(r) < args[r].max_retries
           /\ Done(r) =>
                /\ obs[r].sleeps = Calls(r) - 1
                /\ obs[r].sleeps =
                     Min(FailedAttempts(r), args[r].max_retries - 1)
                /\ raised[r] = "AccountCreationError" =>
                     FailedAttempts(r) = args[r].max_retries
           /\ (Calls(r) >= 2 /\ pc[r] # "backoff") =>
                obs[r].lastSleep >= BackoffSeconds
      /\ args[r].max_retries = 0 => (Calls(r) = 0 /\ obs[r].sleeps = 0)

C14_Witness ==
  \E r \in Reqs :
    /\ Creating(r) /\ Done(r)
    /\ args[r].max_retries = 3
    /\ raised[r] = "AccountCreationError"
    /\ FailedAttempts(r) = 3
    /\ obs[r].sleeps = 2
    /\ obs[r].lastSleep = BackoffSeconds
\* C15: in every client create_new_account has returned, account_id is the
\* id of the last upstream answer and mailbox_id is the id of a mailbox of
\* path "INBOX" of that same answer, the address is the one that last call
\* posted, and every earlier answer was a failed attempt, whatever id it
\* carried.
C15_IdsOfFinalAttempt ==
  \A r \in Reqs :
    (Creating(r) /\ Done(r) /\ returned[r] = "instance") =>
      LET n == Len(obs[r].answers) IN
      /\ n >= 1 /\ n = Calls(r)
      /\ ~obs[r].answers[n].failed
      /\ account_id[r] = obs[r].answers[n].id
      /\ mailbox_id[r] \in obs[r].answers[n].inboxIds
      /\ address[r] = obs[r].calls[n].json.address
      /\ \A i \in 1 .. n - 1 : AttemptFailed(obs[r].answers[i])

C15_Witness ==
  \E r \in Reqs :
    /\ Creating(r) /\ Done(r) /\ returned[r] = "instance"
    /\ Calls(r) = 2
    /\ ~obs[r].answers[1].failed /\ obs[r].answers[1].id = "acc2"
    /\ obs[r].calls[1].json.address # obs[r].calls[2].json.address
    /\ account_id[r] = "acc1" /\ mailbox_id[r] = "mb3"
\* The upstream calls of a request that have not been answered yet
InFlight(r) == Calls(r) - Len(obs[r].answers)

\* C16: a wait_for_message call never has two fetches in flight: a fetch is
\* in flight exactly while the call is suspended on it, and the next one is
\* issued only after its answer and one sleep of at least the interval:
\* while fetch n is in flight, n - 1 sleeps have been begun and finished.
C16_PollsSequential ==
  \A r \in Reqs :
    (Waiting(r) /\ r \in slots) =>
      /\ InFlight(r) \in {0, 1}
      /\ InFlight(r) = 1 <=> pc[r] = "fetch"
      /\ pc[r] = "fetch" => obs[r].sleeps = Calls(r) - 1
      /\ pc[r] = "sleep" => obs[r].sleeps = Calls(r)
      /\ Done(r) => obs[r].sleeps \in {Calls(r) - 1, Calls(r)}
      /\ (obs[r].sleeps >= 1 /\ pc[r] # "sleep") =>
           obs[r].lastSleep >= args[r].interval
      /\ \A i \in 1 .. Calls(r) : obs[r].calls[i].method = "GET"

C16_Witness ==
  \E r \in Reqs :
    /\ Waiting(r) /\ pc[r] = "fetch"
    /\ Calls(r) = 2 /\ Len(obs[r].answers) = 1
    /\ obs[r].sleeps = 1
    /\ args[r].interval = 1 /\ obs[r].lastSleep = 1
\* The fields of the client of request r
ClientOf(r) ==
  <<session[r], address[r], password[r], account_id[r], mailbox_id[r]>>

\* All that belongs to request r: its position, its client, what it did
OwnOf(r) == <<handler[r], pc[r], args[r], ClientOf(r), obs[r]>>

\* Every upstream call request r has issued carries the ids r was sent
OwnIdsOnly(r) ==
  /\ handler[r] = "api_wait_for_message" =>
       /\ account_id[r] \in {None, args[r].data.accountId}
       /\ mailbox_id[r] \in {None, args[r].data.mailboxId}
       /\ \A i \in 1 .. Calls(r) :
            obs[r].calls[i].endpoint =
              MessagesEndpoint(args[r].data.accountId, args[r].data.mailboxId)
  /\ handler[r] = "api_delete_account" =>
       /\ Calls(r) = 1
       /\ pc[r] = "delete" => Truthy(account_id[r])
       /\ Truthy(account_id[r]) =>
            obs[r].calls[1].endpoint = "accounts/" \o account_id[r]

\* C17: with the requests interleaved at their awaits, every upstream call
\* of a request carries the ids that request was sent, and no step changes
\* the client of one request together with anything of another request: a
\* client is written by the steps of its own request alone.
C17_RequestsIsolated ==
  /\ [](\A r \in Reqs : OwnIdsOnly(r))
  /\ [][\A r, q \in Reqs :
          (r # q /\ ClientOf(r)' # ClientOf(r)) => OwnOf(q)' = OwnOf(q)]_vars

C17_Witness ==
  /\ handler[1] = "api_wait_for_message" /\ pc[1] = "fetch" /\ Calls(1) = 2
  /\ handler[2] = "api_delete_account" /\ pc[2] = "delete"
  /\ account_id[1] = "acc1" /\ account_id[2] = "acc2"
  /\ since[2] > since[1] - 2 /\ obs[1].sleeps = 1
\* ceil(a / b) for b > 0
Ceil(a, b) == (a + b - 1) \div b

\* The most fetches a wait_for_message call may make
MaxFetches(timeout, interval) ==
  IF timeout > 0 /\ interval > 0 THEN Ceil(timeout, interval) ELSE 0

\* C18: for every timeout and every interval > 0, every gateway call being
\* answered and every sleep ending, a request to wait_for_message ends, and
\* it never makes more than ceil(timeout / interval) fetches: none when
\* timeout <= 0.
C18_WaitTerminates ==
  /\ [](\A r \in Reqs :
          Waiting(r) => Calls(r) <= MaxFetches(args[r].timeout, args[r].interval))
  /\ \A r \in Reqs : (Waiting(r) /\ r \in slots) ~> Done(r)

C18_Witness ==
  \E r \in Reqs :
    /\ TimedOut(r)
    /\ args[r].timeout = 2 /\ args[r].interval = 1
    /\ Calls(r) = 2 /\ Calls(r) = MaxFetches(args[r].timeout, args[r].interval)
\* C19: a delete_account whose DELETE failed has raised MailTmError with
\* account_id and address as they were at the call; password and mailbox_id
\* are as they were at the call in every case; and a delete_account on a
\* client whose account_id is unset has made no upstream call and has
\* returned without an error.
C19_DeleteFrame ==
  \A r \in Reqs :
    (Deleting(r) /\ r \in slots /\ obs[r].clients = 1) =>
      /\ handler[r] = "delete_account" =>
           password[r] = DefaultPassword /\ mailbox_id[r] = "mb1"
      /\ handler[r] = "api_delete_account" =>
           password[r] = None /\ mailbox_id[r] = None
      /\ (Done(r) /\ Len(obs[r].answers) = 1 /\ obs[r].answers[1].failed) =>
           /\ raised[r] = "MailTmError"
           /\ Truthy(account_id[r])
           /\ obs[r].calls[1].endpoint = "accounts/" \o account_id[r]
           /\ handler[r] = "delete_account" =>
                account_id[r] = "acc1" /\ address[r] = HeldAddress
           /\ handler[r] = "api_delete_account" => address[r] = None
      /\ (handler[r] = "delete_account" /\ ~Truthy(account_id[r])
            /\ address[r] = HeldAddress) =>
           /\ Done(r)
           /\ Calls(r) = 0
           /\ raised[r] = "none" /\ returned[r] = None
           /\ account_id[r] \in {"", None}

C19_Witness ==
  \E r \in Reqs :
    /\ handler[r] = "delete_account" /\ Done(r)
    /\ Calls(r) = 1 /\ obs[r].answers[1].failed
    /\ raised[r] = "MailTmError"
    /\ account_id[r] = "acc1" /\ address[r] = HeldAddress
    /\ password[r] = DefaultPassword /\ mailbox_id[r] = "mb1"
\* C20: every fetch of wait_for_message starts before the deadline, and its
\* answer is taken whenever it arrives: once a fetch has listed a message the
\* call has returned the first message of the list, also at or after the
\* deadline; a call that raised MessageTimeoutError got an empty list from
\* every fetch it made.
C20_DeadlineBeforeFetchOnly ==
  \A r \in Reqs :
    (Waiting(r) /\ r \in slots) =>
      LET n == Len(obs[r].answers) IN
      /\ pc[r] = "fetch" => since[r] - start_time[r] < args[r].timeout
      /\ (n >= 1 /\ ~obs[r].answers[n].failed
            /\ obs[r].answers[n].messages # <<>>) =>
           /\ Done(r)
           /\ raised[r] = "none"
           /\ returned[r] = obs[r].answers[n].messages[1]
           /\ status[r] = 200
      /\ TimedOut(r) =>
           \A i \in 1 .. n :
             ~obs[r].answers[i].failed /\ obs[r].answers[i].messages = <<>>

C20_Witness ==
  \E r \in Reqs :
    /\ Waiting(r) /\ Done(r)
    /\ raised[r] = "none" /\ returned[r] = "msg1"
    /\ Calls(r) = 2
    /\ Elapsed(r) >= args[r].timeout
    /\ args[r].timeout > 0

====
